---- MODULE Spec2Model ----
(***************************************************************************)
(* A model of salt/modules/restartcheck.py: the path classifier            *)
(* _valid_deleted_file, the /proc scanner _deleted_files, the formatter    *)
(* _format_output and the orchestrator restartcheck.                       *)
(*                                                                         *)
(* Python strings are TLA+ strings; startswith, endswith, find, slicing    *)
(* and the regular expressions are computed on their characters.           *)
(***************************************************************************)
EXTENDS Integers, Sequences, FiniteSets, TLC

VARIABLES
    pc,              \* position of the run inside restartcheck
    os_family,       \* __grains__['os_family']
    has_systemd,     \* os.path.exists(systemd) on this host
    arg_ignorelist,  \* the caller's arguments, as passed
    arg_blacklist,
    arg_excludepid,
    verbose,         \* the caller's verbose, drawn when the scan is over
    kernel_restart,
    ignorelist,      \* the arguments after normalisation (lists)
    blacklist,
    excludepid,
    scanned,         \* what psutil.process_iter() has yielded so far
    deleted_files,   \* the value _deleted_files() builds and returns
    next_file,       \* index of the record the resolve loop looks at next
    exe,             \* os.readlink('/proc/<pid>/exe'), once read
    owners_cache,
    packages,        \* package name -> entry
    pkg_order,       \* the keys of packages in iteration order
    restartable,
    nonrestartable,
    restartinitcommands,
    restartservicecommands,
    plan_built,
    service_answers, \* what the host answered about the services asked for
    ret,             \* the value restartcheck returns
    cpath,           \* the path handed to _valid_deleted_file
    cvalid,          \* what _valid_deleted_file returned for cpath
    versions_found,  \* the list the os_family's _kernel_versions_* returned
    nilrt_probes,    \* what the NILinuxRT probes of the kernel check answer
    timestamp_file_exists, \* os.path.exists(timestamp_file)
    md5sum_file_exists,    \* os.path.exists(md5sum_file)
    timestamp_file,  \* what file.read(timestamp_file) returns
    mtime,           \* os.path.getmtime(full_filepath), in tenths of a second
    md5sum_retcode,  \* the exit status of md5sum -cs md5sum_file
    file_changed     \* what _file_changed_nilrt returned

classify_vars == <<cpath, cvalid>>

arg_vars == <<os_family, has_systemd, arg_ignorelist, arg_blacklist,
              arg_excludepid, verbose>>

scan_vars == <<scanned, deleted_files>>

resolve_vars == <<next_file, exe, owners_cache, packages, pkg_order>>

plan_vars == <<restartable, nonrestartable, restartinitcommands,
               restartservicecommands, plan_built>>

host_vars == <<service_answers>>

\* the inputs of the kernel check and of _file_changed_nilrt, held where
\* these are checked on their own
kernel_check_vars == <<versions_found, nilrt_probes>>

file_changed_vars == <<timestamp_file_exists, md5sum_file_exists,
                       timestamp_file, mtime, md5sum_retcode, file_changed>>

pure_vars == <<kernel_check_vars, file_changed_vars>>

vars == <<pc, arg_vars, kernel_restart, ignorelist, blacklist, excludepid,
          scan_vars, resolve_vars, plan_vars, ret, host_vars,
          classify_vars, pure_vars>>

----------------------------------------------------------------------------
(* Python string primitives.                                               *)

\* the character at 1-based index i, "" outside the string
CharAt(s, i) == IF i >= 1 /\ i <= Len(s) THEN SubSeq(s, i, i) ELSE ""

\* s.startswith(prefix)
StartsWith(s, prefix) ==
    /\ Len(prefix) <= Len(s)
    /\ SubSeq(s, 1, Len(prefix)) = prefix

\* s.endswith(suffix)
EndsWith(s, suffix) ==
    /\ Len(suffix) <= Len(s)
    /\ SubSeq(s, Len(s) - Len(suffix) + 1, Len(s)) = suffix

\* the 0-based offsets at which sub occurs in s
Occurrences(s, sub) ==
    {i \in 0..(Len(s) - Len(sub)) : SubSeq(s, i + 1, i + Len(sub)) = sub}

Min(S) == CHOOSE x \in S : \A y \in S : x <= y

\* s.find(sub): the lowest 0-based offset, -1 when sub does not occur
Find(s, sub) ==
    IF Occurrences(s, sub) = {} THEN -1 ELSE Min(Occurrences(s, sub))

\* sub in s, for strings
Contains(s, sub) == Occurrences(s, sub) # {}

\* s[0:-n]
DropLast(s, n) == IF Len(s) <= n THEN "" ELSE SubSeq(s, 1, Len(s) - n)

\* s[n:]
DropFirst(s, n) == IF Len(s) <= n THEN "" ELSE SubSeq(s, n + 1, Len(s))

Digits == {"0", "1", "2", "3", "4", "5", "6", "7", "8", "9"}

HexDigits == Digits \cup {"a", "b", "c", "d", "e", "f"}

\* the index of the last character of the longest run of characters of
\* chars that starts at index i (i - 1 when there is none): a greedy x+
RECURSIVE RunEnd(_, _, _)
RunEnd(s, i, chars) ==
    IF CharAt(s, i) \in chars THEN RunEnd(s, i + 1, chars) ELSE i - 1

\* x in lst, for a list
InList(x, lst) == \E i \in 1..Len(lst) : lst[i] = x

----------------------------------------------------------------------------
(* _valid_deleted_file                                                     *)

DeletedMarker == " (deleted)"

\* re.compile(r"\(path inode=[0-9]+\)$").search(path); $ also matches just
\* before a newline that ends the string
InodeSuffix(path) ==
    LET body == IF EndsWith(path, "\n") THEN DropLast(path, 1) ELSE path
        n == Len(body)
    IN  \E i \in 1..n :
            /\ i + 13 <= n
            /\ SubSeq(body, i, i + 11) = "(path inode="
            /\ CharAt(body, n) = ")"
            /\ \A j \in (i + 12)..(n - 1) : CharAt(body, j) \in Digits

\* the initial value of ret and the two tests that set it
MarkedDeleted(path) == EndsWith(path, DeletedMarker) \/ InodeSuffix(path)

\* the startswith tests that clear ret before the icon-theme test, in
\* source order
PrefixesBeforeIcon ==
    << "/var/log/", "/var/local/log/", "/var/run/", "/var/local/run/",
       "/tmp/", "/dev/shm/", "/run/", "/drm", "/var/tmp/",
       "/var/local/tmp/", "/dev/zero", "/dev/pts/", "/usr/lib/locale/",
       "/home/" >>

\* the startswith tests that clear ret after the icon-theme test
PrefixesAfterIcon ==
    << "/var/cache/fontconfig/", "/var/lib/nagios3/spool/",
       "/var/lib/nagios3/spool/checkresults/", "/var/lib/postgresql/",
       "/var/lib/vdr/", "/[aio]", "/SYSV" >>

\* the one endswith test among the exclusions
IconThemeSuffix == "icon-theme.cache"

\* one exclusion statement: if <test>: ret = False
ClearIf(test, r) == IF test THEN FALSE ELSE r

\* the statements "if path.startswith(p): ret = False" for p = prefixes[k..]
RECURSIVE ApplyPrefixRules(_, _, _, _)
ApplyPrefixRules(path, prefixes, k, r) ==
    IF k > Len(prefixes) THEN r
    ELSE ApplyPrefixRules(path, prefixes, k + 1,
                          ClearIf(StartsWith(path, prefixes[k]), r))

\* _valid_deleted_file without the test for the home directories
ValidDeletedFileNoHome(path) ==
    LET r0 == MarkedDeleted(path)
        r1 == ApplyPrefixRules(path, SubSeq(PrefixesBeforeIcon, 1, 13), 1, r0)
        r2 == ClearIf(EndsWith(path, IconThemeSuffix), r1)
    IN  ApplyPrefixRules(path, PrefixesAfterIcon, 1, r2)

_valid_deleted_file(path) ==
    LET r0 == MarkedDeleted(path)
        r1 == ApplyPrefixRules(path, PrefixesBeforeIcon, 1, r0)
        r2 == ClearIf(EndsWith(path, IconThemeSuffix), r1)
    IN  ApplyPrefixRules(path, PrefixesAfterIcon, 1, r2)

----------------------------------------------------------------------------
(* _deleted_files                                                          *)

\* the value False
FalseVal == [type |-> "bool", val |-> FALSE]

\* a list value
ListVal(items) == [type |-> "list", items |-> items]

\* mapline.match(line).group(2), "" when the line does not match:
\* ^[\da-f]+-[\da-f]+ [r-][w-][x-][sp-] [\da-f]+ [\da-f]{2}:[\da-f]{2}
\*  (\d+) *(.+)( \(deleted\))?\n$
\* (.+) is greedy, so it takes the marker too and group 3 stays empty; when
\* nothing follows the inode and its spaces, the match gives back one space
\* or, failing that, the last digit of the inode
MapLinePath(line) ==
    LET a1 == RunEnd(line, 1, HexDigits)
        a2 == RunEnd(line, a1 + 2, HexDigits)
        a3 == RunEnd(line, a2 + 7, HexDigits)
        a5 == RunEnd(line, a3 + 8, Digits)
        sp == RunEnd(line, a5 + 1, {" "})
        n  == Len(line)
        fields ==
            /\ a1 >= 1
            /\ CharAt(line, a1 + 1) = "-"
            /\ a2 >= a1 + 2
            /\ CharAt(line, a2 + 1) = " "
            /\ CharAt(line, a2 + 2) \in {"r", "-"}
            /\ CharAt(line, a2 + 3) \in {"w", "-"}
            /\ CharAt(line, a2 + 4) \in {"x", "-"}
            /\ CharAt(line, a2 + 5) \in {"s", "p", "-"}
            /\ CharAt(line, a2 + 6) = " "
            /\ a3 >= a2 + 7
            /\ CharAt(line, a3 + 1) = " "
            /\ CharAt(line, a3 + 2) \in HexDigits
            /\ CharAt(line, a3 + 3) \in HexDigits
            /\ CharAt(line, a3 + 4) = ":"
            /\ CharAt(line, a3 + 5) \in HexDigits
            /\ CharAt(line, a3 + 6) \in HexDigits
            /\ CharAt(line, a3 + 7) = " "
            /\ a5 >= a3 + 8
            /\ CharAt(line, n) = "\n"
            /\ ~Contains(SubSeq(line, 1, n - 1), "\n")
    IN  IF ~fields THEN ""
        ELSE IF sp + 1 <= n - 1 THEN SubSeq(line, sp + 1, n - 1)
        ELSE IF sp > a5 THEN " "
        ELSE IF a5 > a3 + 8 THEN CharAt(line, a5)
        ELSE ""

\* the length of the slice path[0:-10] cuts off
MarkerLen == 10

\* the append without the "not in deleted_files" test
AppendAlways(deleted, val) == Append(deleted, val)

\* if val not in deleted_files: deleted_files.append(val)
AppendNew(deleted, val) ==
    IF InList(val, deleted) THEN deleted ELSE Append(deleted, val)

\* the loop over maplines, from line k on
RECURSIVE MapsProbe(_, _, _, _, _)
MapsProbe(name, pid, maplines, k, deleted) ==
    IF k > Len(maplines) THEN deleted
    ELSE LET path == MapLinePath(maplines[k])
             val == <<name, pid, DropLast(path, MarkerLen)>>
         IN  MapsProbe(name, pid, maplines, k + 1,
                 IF path # "" /\ _valid_deleted_file(path)
                 THEN AppendNew(deleted, val)
                 ELSE deleted)

\* filenames for one link: the target when it is a regular file, the files
\* under it when it is a directory other than "/"
Filenames(link) ==
    IF link.kind = "file" THEN <<link.target>>
    ELSE IF link.kind = "dir" /\ link.target # "/" THEN link.walk
    ELSE <<>>

\* the loop over filenames, from index k on
RECURSIVE AddFilenames(_, _, _, _, _)
AddFilenames(name, pid, filenames, k, deleted) ==
    IF k > Len(filenames) THEN deleted
    ELSE AddFilenames(name, pid, filenames, k + 1,
             IF _valid_deleted_file(filenames[k])
             THEN AppendNew(deleted, <<name, pid, filenames[k]>>)
             ELSE deleted)

\* the loop over listdir, from link k on; os.readlink raising OSError ends
\* the loop and keeps what was appended before
RECURSIVE FdProbe(_, _, _, _, _)
FdProbe(name, pid, links, k, deleted) ==
    IF k > Len(links) THEN deleted
    ELSE IF links[k].kind = "oserror" THEN deleted
    ELSE FdProbe(name, pid, links, k + 1,
                 AddFilenames(name, pid, Filenames(links[k]), 1, deleted))

\* the body of the loop over psutil.process_iter() with the open of maps
\* and fd failing for good
ScanProcessSkipOpenError(proc, deleted) ==
    IF proc.outcome = "NoSuchProcess" THEN ListVal(deleted)
    ELSE IF proc.outcome = "OpenError" THEN ListVal(deleted)
    ELSE ListVal(FdProbe(proc.name, proc.pid, proc.links, 1,
                     MapsProbe(proc.name, proc.pid, proc.maplines, 1,
                               deleted)))

\* the body of the loop over psutil.process_iter() with NoSuchProcess
\* handled like a failed open
ScanProcessNoSuchFails(proc, deleted) ==
    IF proc.outcome = "NoSuchProcess" THEN FalseVal
    ELSE IF proc.outcome = "OpenError" THEN FalseVal
    ELSE ListVal(FdProbe(proc.name, proc.pid, proc.links, 1,
                     MapsProbe(proc.name, proc.pid, proc.maplines, 1,
                               deleted)))

\* the body of the loop over psutil.process_iter() for one process: the
\* list so far, extended, or False when the function returns False
ScanProcess(proc, deleted) ==
    IF proc.outcome = "NoSuchProcess" THEN ListVal(deleted)
    ELSE IF proc.outcome = "OpenError" THEN FalseVal
    ELSE ListVal(FdProbe(proc.name, proc.pid, proc.links, 1,
                     MapsProbe(proc.name, proc.pid, proc.maplines, 1,
                               deleted)))

----------------------------------------------------------------------------
(* restartcheck: kernel check and argument handling                        *)

\* the loop "for kernel in kernel_versions", from version k on; the three
\* NILinuxRT probes are (modules changed, sysapi changed, reboot witnessed)
\* the kernel check that leaves out the reboot-required flag
RECURSIVE KernelRestartUnwitnessed(_, _, _, _, _)
KernelRestartUnwitnessed(family, versions, k, kernel_current, nilrt) ==
    IF k > Len(versions) THEN TRUE
    ELSE IF Contains(kernel_current, versions[k])
         THEN IF family = "NILinuxRT"
              THEN IF ~nilrt.modules_changed /\ ~nilrt.sysapi_changed
                   THEN FALSE
                   ELSE KernelRestartUnwitnessed(family, versions, k + 1,
                                                 kernel_current, nilrt)
              ELSE FALSE
         ELSE KernelRestartUnwitnessed(family, versions, k + 1,
                                       kernel_current, nilrt)

RECURSIVE KernelRestart(_, _, _, _, _)
KernelRestart(family, kernel_versions, k, kernel_current, nilrt) ==
    IF k > Len(kernel_versions) THEN TRUE
    ELSE IF Contains(kernel_current, kernel_versions[k])
         THEN IF family = "NILinuxRT"
              THEN IF ~nilrt.modules_changed /\ ~nilrt.sysapi_changed
                      /\ ~nilrt.witnessed
                   THEN FALSE
                   ELSE KernelRestart(family, kernel_versions, k + 1,
                                      kernel_current, nilrt)
              ELSE FALSE
         ELSE KernelRestart(family, kernel_versions, k + 1, kernel_current,
                            nilrt)

\* an argument the caller left out (None), a single string, a single
\* integer, or a list
NoneArg == [kind |-> "none"]

StrArg(v) == [kind |-> "str", val |-> v]

IntArg(v) == [kind |-> "int", val |-> v]

ListArg(items) == [kind |-> "list", items |-> items]

\* the truth value Python gives an argument: None, "", 0 and [] are false
Truthy(arg) ==
    CASE arg.kind = "none" -> FALSE
      [] arg.kind = "str" -> arg.val # ""
      [] arg.kind = "int" -> arg.val # 0
      [] arg.kind = "list" -> Len(arg.items) > 0

\* if arg: (if not isinstance(arg, list): arg = [arg]) else: arg = default
AsList(arg, default) ==
    IF Truthy(arg)
    THEN IF arg.kind = "list" THEN arg.items ELSE <<arg.val>>
    ELSE default

DefaultIgnorelist == <<"screen", "systemd">>

NormaliseIgnorelist(arg) == AsList(arg, DefaultIgnorelist)

NormaliseBlacklist(arg) == AsList(arg, <<>>)

NormaliseExcludepid(arg) == AsList(arg, <<>>)

\* the failure objects restartcheck returns
Failure(comment) == [kind |-> "failure", result |-> FALSE, comment |-> comment]

UnsupportedComment ==
    "Only available on Debian, Red Hat and NI Linux Real-Time based systems."

ScanFailedComment == "Could not get list of processes. (Do you have root access?)"

\* a string result
StrResult(text) == [kind |-> "str", text |-> text]

\* a list result
ListResult(items) == [kind |-> "list", items |-> items]

\* not returned yet
NoResult == [kind |-> "none"]

NothingToRestart == "No packages seem to need to be restarted."

----------------------------------------------------------------------------
(* restartcheck: from deleted files to packages                            *)

\* isinstance(deleted_files, list)
IsList(v) == v.type = "list"

\* a blacklisted path or an excluded pid, one being enough only together
SkippedOnlyIfBoth(deleted_file, bl, ex) ==
    InList(deleted_file[3], bl) /\ InList(deleted_file[2], ex)

\* path in blacklist or pid in excludepid
Skipped(deleted_file, bl, ex) ==
    InList(deleted_file[3], bl) \/ InList(deleted_file[2], ex)

\* every package counted as reportable
ReportedAlways(packagename, ign) == packagename # ""

\* packagename and packagename not in ignorelist
Reported(packagename, ign) == packagename # "" /\ ~InList(packagename, ign)

\* '\t' + six.text_type(pid) + ' ' + readlink + ' (file: ' + path + ')'
Program(pid, readlink, path) ==
    "\t" \o ToString(pid) \o " " \o readlink \o " (file: " \o path \o ")"

\* a new entry of packages
NewEntry(program, name) ==
    [initscripts |-> <<>>, systemdservice |-> <<>>,
     processes |-> <<program>>, process_name |-> name]

\* the if/else that puts program under packagename
AddProgram(pkgs, packagename, program, name) ==
    IF packagename \notin DOMAIN pkgs
    THEN pkgs @@ (packagename :> NewEntry(program, name))
    ELSE IF InList(program, pkgs[packagename].processes)
         THEN pkgs
         ELSE [pkgs EXCEPT ![packagename].processes = Append(@, program)]

\* the keys of packages in iteration order once packagename is a key
AddKey(order, packagename) ==
    IF InList(packagename, order) THEN order ELSE Append(order, packagename)

\* packagename for readlink: the memoized name, else the owner the package
\* manager gives, else the name of the process
PackageName(cache, readlink, owner, name) ==
    IF readlink \in DOMAIN cache THEN cache[readlink]
    ELSE IF owner # "" THEN owner
    ELSE name

\* owners_cache after the lookup
Memoize(cache, readlink, packagename) ==
    IF readlink \in DOMAIN cache THEN cache
    ELSE cache @@ (readlink :> packagename)

----------------------------------------------------------------------------
(* restartcheck: init scripts and systemd units of a package               *)

\* systemd_folder; NILinuxRT sets none and never reads it
SystemdFolder(family) ==
    CASE family = "Debian" -> "/lib/systemd/system/"
      [] family = "RedHat" -> "/usr/lib/systemd/system/"
      [] OTHER -> ""

InitdFolder == "/etc/init.d/"

\* the 12 of pth[12:]
InitdFolderLen == 12

\* salt.utils.files.fopen(pth) and readlines() on this host: the lines of
\* the unit file, or unreadable (IOError)
UnitFile(pth) ==
    CASE EndsWith(pth, "/nginx.service") ->
           [readable |-> TRUE,
            lines |-> <<"[Service]\n", "Type=forking\n">>]
      [] EndsWith(pth, "/systemd-logind.service") ->
           [readable |-> TRUE,
            lines |-> <<"[Unit]\n", "[Service]\n", "Restart=on-failure\n">>]
      [] EndsWith(pth, "/apt-daily.service") ->
           [readable |-> TRUE,
            lines |-> <<"[Service]\n", "Type=oneshot\n">>]
      [] EndsWith(pth, "/rc-local.service") ->
           [readable |-> TRUE,
            lines |-> <<"[Service]\n", " Type=oneshot\n">>]
      [] OTHER -> [readable |-> FALSE, lines |-> <<>>]

\* line.find('Type=oneshot') > 0
OneshotLine(line) == Find(line, "Type=oneshot") > 0

\* is_oneshot after the loop over servicefile.readlines()
IsOneshot(lines) == \E i \in 1..Len(lines) : OneshotLine(lines[i])

\* the body of the while loop for one line of the package's file list
ListingLine(entry, line, family, systemd_present) ==
    LET pth == DropLast(line, 1)
        folder == SystemdFolder(family)
        e1 == IF StartsWith(pth, InitdFolder) /\ ~EndsWith(pth, ".sh")
              THEN [entry EXCEPT !.initscripts =
                        Append(@, DropFirst(pth, InitdFolderLen))]
              ELSE entry
        unit == DropFirst(pth, Len(folder))
    IN  IF systemd_present /\ StartsWith(pth, folder)
           /\ EndsWith(pth, ".service") /\ Find(pth, ".wants") = -1
        THEN IF ~UnitFile(pth).readable THEN e1
             ELSE IF IsOneshot(UnitFile(pth).lines) THEN e1
             ELSE [e1 EXCEPT !.systemdservice = Append(@, unit)]
        ELSE e1

\* the while loop over the lines the package query prints, from line k on
RECURSIVE ListingLoop(_, _, _, _, _)
ListingLoop(entry, lines, k, family, systemd_present) ==
    IF k > Len(lines) THEN entry
    ELSE ListingLoop(ListingLine(entry, lines[k], family, systemd_present),
                     lines, k + 1, family, systemd_present)

\* the fallback that records the name in both lists
FallbackBoth(entry, available, initd_exists) ==
    IF Len(entry.systemdservice) = 0 /\ Len(entry.initscripts) = 0
       /\ available
    THEN [entry EXCEPT !.initscripts = Append(@, entry.process_name),
                       !.systemdservice = Append(@, entry.process_name)]
    ELSE entry

\* the body of the second loop over packages: the service named after the
\* process, when the package query found nothing
Fallback(entry, available, initd_exists) ==
    IF Len(entry.systemdservice) = 0 /\ Len(entry.initscripts) = 0
    THEN IF available
         THEN IF initd_exists
              THEN [entry EXCEPT !.initscripts =
                        Append(@, entry.process_name)]
              ELSE [entry EXCEPT !.systemdservice =
                        Append(@, entry.process_name)]
         ELSE entry
    ELSE entry

----------------------------------------------------------------------------
(* restartcheck: the plan, and _format_output                              *)

EmptyPlan ==
    [restartable |-> <<>>, nonrestartable |-> <<>>,
     restartinitcommands |-> <<>>, restartservicecommands |-> <<>>]

\* ['service ' + s + ' restart' for s in initscripts], from script k on
RECURSIVE InitCommands(_, _)
InitCommands(initscripts, k) ==
    IF k > Len(initscripts) THEN <<>>
    ELSE <<"service " \o initscripts[k] \o " restart">>
         \o InitCommands(initscripts, k + 1)

\* ['systemctl restart ' + s for s in systemdservice], from unit k on
RECURSIVE ServiceCommands(_, _)
ServiceCommands(systemdservice, k) ==
    IF k > Len(systemdservice) THEN <<>>
    ELSE <<"systemctl restart " \o systemdservice[k]>>
         \o ServiceCommands(systemdservice, k + 1)

\* the plan loop with the second test an if of its own
PlanPackageTwoIfs(plan, package, entry) ==
    LET p1 == IF Len(entry.initscripts) > 0
              THEN [plan EXCEPT
                      !.restartable = Append(@, package),
                      !.restartinitcommands =
                          @ \o InitCommands(entry.initscripts, 1)]
              ELSE plan
    IN  IF Len(entry.systemdservice) > 0
        THEN [p1 EXCEPT
                !.restartable = Append(@, package),
                !.restartservicecommands =
                    @ \o ServiceCommands(entry.systemdservice, 1)]
        ELSE [p1 EXCEPT !.nonrestartable = Append(@, package)]

\* the plan loop with the two tests in the other order
PlanPackageUnitsFirst(plan, package, entry) ==
    IF Len(entry.systemdservice) > 0
    THEN [plan EXCEPT
            !.restartable = Append(@, package),
            !.restartservicecommands =
                @ \o ServiceCommands(entry.systemdservice, 1)]
    ELSE IF Len(entry.initscripts) > 0
    THEN [plan EXCEPT
            !.restartable = Append(@, package),
            !.restartinitcommands = @ \o InitCommands(entry.initscripts, 1)]
    ELSE [plan EXCEPT !.nonrestartable = Append(@, package)]

\* the body of the last loop over packages
PlanPackage(plan, package, entry) ==
    IF Len(entry.initscripts) > 0
    THEN [plan EXCEPT
            !.restartable = Append(@, package),
            !.restartinitcommands = @ \o InitCommands(entry.initscripts, 1)]
    ELSE IF Len(entry.systemdservice) > 0
    THEN [plan EXCEPT
            !.restartable = Append(@, package),
            !.restartservicecommands =
                @ \o ServiceCommands(entry.systemdservice, 1)]
    ELSE [plan EXCEPT !.nonrestartable = Append(@, package)]

\* the last loop over packages, from key k on
RECURSIVE PlanLoop(_, _, _, _)
PlanLoop(plan, pkgs, order, k) ==
    IF k > Len(order) THEN plan
    ELSE PlanLoop(PlanPackage(plan, order[k], pkgs[order[k]]),
                  pkgs, order, k + 1)

RestartSentinel == "System restart required."

\* '\n'.join(lines)
RECURSIVE JoinLines(_, _)
JoinLines(lines, k) ==
    IF k > Len(lines) THEN ""
    ELSE IF k = Len(lines) THEN lines[k]
    ELSE lines[k] \o "\n" \o JoinLines(lines, k + 1)

\* for program in processes: ret += program + '\n'
RECURSIVE ProgramLines(_, _)
ProgramLines(processes, k) ==
    IF k > Len(processes) THEN ""
    ELSE processes[k] \o "\n" \o ProgramLines(processes, k + 1)

\* for package in names: package + ':\n' and its programs
RECURSIVE PackageBlocks(_, _, _)
PackageBlocks(pkgs, names, k) ==
    IF k > Len(names) THEN ""
    ELSE names[k] \o ":\n" \o ProgramLines(pkgs[names[k]].processes, 1)
         \o PackageBlocks(pkgs, names, k + 1)

\* the else branch of _format_output
VerboseReport(kernel, pkgs, order, plan) ==
    LET banner == IF kernel THEN "System restart required.\n\n" ELSE ""
        found ==
            IF Len(order) > 0
            THEN "Found " \o ToString(Len(order))
                 \o " processes using old versions of upgraded files.\n"
                 \o "These are the packages:\n"
            ELSE ""
        services ==
            IF Len(plan.restartservicecommands) > 0
            THEN "\n\nThese are the systemd services:\n"
                 \o JoinLines(plan.restartservicecommands, 1)
            ELSE ""
        inits ==
            IF Len(plan.restartinitcommands) > 0
            THEN "\n\nThese are the initd scripts:\n"
                 \o JoinLines(plan.restartinitcommands, 1)
            ELSE ""
        able ==
            IF Len(plan.restartable) > 0
            THEN "Of these, " \o ToString(Len(plan.restartable))
                 \o " seem to contain systemd service definitions or init scripts "
                 \o "which can be used to restart them:\n"
                 \o PackageBlocks(pkgs, plan.restartable, 1)
                 \o services \o inits
            ELSE ""
        unable ==
            IF Len(plan.nonrestartable) > 0
            THEN "\n\nThese processes " \o ToString(Len(plan.nonrestartable))
                 \o " do not seem to have an associated init script "
                 \o "to restart them:\n"
                 \o PackageBlocks(pkgs, plan.nonrestartable, 1)
            ELSE ""
    IN  banner \o found \o able \o unable

\* the compact list without the restart sentinel
CompactListNoSentinel(kernel, plan) ==
    plan.restartable \o plan.nonrestartable

\* the if branch of _format_output
CompactList(kernel, plan) ==
    LET names == plan.restartable \o plan.nonrestartable
    IN  IF kernel THEN Append(names, RestartSentinel) ELSE names

_format_output(kernel, pkgs, order, is_verbose, plan) ==
    IF ~is_verbose THEN ListResult(CompactList(kernel, plan))
    ELSE StrResult(VerboseReport(kernel, pkgs, order, plan))

\* the short circuit taken whenever no package is left
ShortCircuitIgnoresKernel(order, kernel) == Len(order) = 0

\* len(packages) == 0 and not kernel_restart
ShortCircuit(order, kernel) == Len(order) = 0 /\ ~kernel

----------------------------------------------------------------------------
(* The host and the caller: the finite sets the inputs are drawn from.     *)

\* how many processes psutil.process_iter() yields at most
MaxProcs == 2

OsFamilies == {"Debian", "RedHat", "NILinuxRT", "Solaris"}

SupportedFamilies == {"Debian", "RedHat", "NILinuxRT"}

ProcNames == {"nginx", "systemd"}

LibFoo == "/usr/lib/libfoo.so.1"

OldData == "/opt/app/old (deleted)"

\* the name, /proc/<pid>/maps and /proc/<pid>/fd of a process, as found
ProcSnapshots ==
    { [name |-> "nginx", maplines |->
         << "7f00-7f10 r-xp 00000000 08:01 123 " \o LibFoo \o " (deleted)\n",
            "7f10-7f18 rw-p 00010000 08:01 123 " \o LibFoo \o " (deleted)\n",
            "7f20-7f30 rw-p 00000000 00:00 0 \n",
            "7f40-7f50 r-xp 00001000 08:01 126 /usr/lib/libbar.so.2\n",
            "7f80-7f90 r--s 00000000 08:01 128 " \o OldData \o " (deleted)\n" >>,
       links |-> << [target |-> "socket:[4711]", kind |-> "other",
                     walk |-> <<>>],
                    [target |-> OldData, kind |-> "file", walk |-> <<>>],
                    [target |-> "", kind |-> "oserror", walk |-> <<>>],
                    [target |-> "/opt/app/new (deleted)", kind |-> "file",
                     walk |-> <<>>] >>],
      [name |-> "systemd", maplines |->
         << "7f00-7f10 r--p 00000000 08:01 125 /var/log/app.log (deleted)\n",
            "7f60-7f70 r-xp 00000000 08:01 127 /usr/lib/libbaz.so (path inode=127)\n" >>,
       links |-> << [target |-> "/", kind |-> "dir",
                     walk |-> << "/vmlinuz (deleted)" >>],
                    [target |-> "/opt/app", kind |-> "dir",
                     walk |-> << "/opt/app/app.conf", OldData >>] >>] }

\* what inspecting one process comes to
Processes(pid) ==
    { [pid |-> pid, name |-> "", outcome |-> o, maplines |-> <<>>,
       links |-> <<>>] : o \in {"NoSuchProcess", "OpenError"} }
    \cup
    { [pid |-> pid, name |-> s.name, outcome |-> "ok",
       maplines |-> s.maplines, links |-> s.links] : s \in ProcSnapshots }

IgnorelistArgs == { NoneArg, StrArg("nginx") }

BlacklistArgs == { NoneArg, ListArg(<<LibFoo>>) }

ExcludepidArgs == { NoneArg, IntArg(1) }

\* the targets of /proc/<pid>/exe
ExePaths == {"/usr/sbin/cron", "/usr/bin/python2.7"}

\* the answers of pkg.owner
Owners == {"", "cron"}

KernelCurrent == "Linux host 4.9.0-8-amd64 #1 SMP Debian 4.9.130 x86_64 GNU/Linux"

KernelVersionSets ==
    { <<>>, <<"4.9.0-8-amd64">>, <<"4.9.0-9-amd64">>,
      <<"4.9.0-9-amd64", "4.9.0-8-amd64">> }

NilrtProbes ==
    [modules_changed : BOOLEAN, sysapi_changed : BOOLEAN, witnessed : BOOLEAN]

\* the file list the package query prints for a package on this host
PackageFiles(package, family) ==
    LET folder == IF family = "RedHat" THEN "/usr/lib/systemd/system/"
                  ELSE "/lib/systemd/system/"
    IN  CASE package = "nginx" ->
               << "/etc/init.d/nginx\n", "/etc/init.d/functions.sh\n",
                  folder \o "nginx.service\n",
                  folder \o "multi-user.target.wants/nginx.service\n",
                  folder \o "apt-daily.service\n",
                  folder \o "gone.service\n" >>
          [] package = "cron" ->
               << "/usr/sbin/cron\n", folder \o "rc-local.service\n" >>
          [] package = "systemd" ->
               << "/bin/systemd\n", folder \o "systemd-logind.service\n" >>
          [] OTHER -> <<>>

\* the process names the second loop asks service.available about
AskedNames(pkgs) ==
    { pkgs[p].process_name :
        p \in { q \in DOMAIN pkgs : /\ Len(pkgs[q].systemdservice) = 0
                                     /\ Len(pkgs[q].initscripts) = 0 } }

\* service.available(name) and os.path.exists('/etc/init.d/' + name)
ServiceAnswers ==
    { [available |-> FALSE, initd_exists |-> FALSE],
      [available |-> TRUE, initd_exists |-> TRUE],
      [available |-> TRUE, initd_exists |-> FALSE] }

----------------------------------------------------------------------------
(* The run of restartcheck.                                                *)

\* no kernel check and no _file_changed_nilrt call is looked at on its own
NoKernelCheck ==
    /\ versions_found = <<>>
    /\ nilrt_probes = [modules_changed |-> FALSE, sysapi_changed |-> FALSE,
                       witnessed |-> FALSE]

NoFileCheck ==
    /\ timestamp_file_exists = FALSE
    /\ md5sum_file_exists = FALSE
    /\ timestamp_file = ""
    /\ mtime = 0
    /\ md5sum_retcode = 0
    /\ file_changed = FALSE

Init ==
    /\ pc = "idle"
    /\ os_family = ""
    /\ has_systemd = FALSE
    /\ arg_ignorelist = NoneArg
    /\ arg_blacklist = NoneArg
    /\ arg_excludepid = NoneArg
    /\ verbose = TRUE
    /\ kernel_restart = TRUE
    /\ ignorelist = <<>>
    /\ blacklist = <<>>
    /\ excludepid = <<>>
    /\ scanned = <<>>
    /\ deleted_files = ListVal(<<>>)
    /\ next_file = 1
    /\ exe = <<>>
    /\ owners_cache = <<>>
    /\ packages = <<>>
    /\ pkg_order = <<>>
    /\ restartable = <<>>
    /\ nonrestartable = <<>>
    /\ restartinitcommands = <<>>
    /\ restartservicecommands = <<>>
    /\ plan_built = FALSE
    /\ service_answers = <<>>
    /\ NoKernelCheck
    /\ NoFileCheck
    /\ ret = NoResult
    /\ cpath = ""
    /\ cvalid = FALSE

\* the call, and the dispatch on os_family
Call ==
    /\ pc = "idle"
    /\ \E family \in OsFamilies, ign \in IgnorelistArgs, bl \in BlacklistArgs,
          ex \in ExcludepidArgs :
          /\ os_family' = family
          /\ arg_ignorelist' = ign
          /\ arg_blacklist' = bl
          /\ arg_excludepid' = ex
          /\ IF family \in SupportedFamilies
             THEN pc' = "kernel" /\ ret' = ret
             ELSE pc' = "done" /\ ret' = Failure(UnsupportedComment)
    /\ UNCHANGED <<has_systemd, verbose, kernel_restart, ignorelist,
                   blacklist, excludepid, scan_vars, resolve_vars,
                   plan_vars, host_vars, classify_vars,
                   pure_vars>>

\* "Check kernel versions"
CheckKernel ==
    /\ pc = "kernel"
    /\ \E versions \in KernelVersionSets, nilrt \in NilrtProbes :
          kernel_restart' =
              KernelRestart(os_family, versions, 1, KernelCurrent, nilrt)
    /\ pc' = "args"
    /\ UNCHANGED <<arg_vars, ignorelist, blacklist, excludepid, scan_vars,
                   resolve_vars, plan_vars, ret,
                   host_vars, classify_vars,
                   pure_vars>>

\* the three arguments made lists
NormaliseArgs ==
    /\ pc = "args"
    /\ ignorelist' = NormaliseIgnorelist(arg_ignorelist)
    /\ blacklist' = NormaliseBlacklist(arg_blacklist)
    /\ excludepid' = NormaliseExcludepid(arg_excludepid)
    /\ pc' = "scan"
    /\ UNCHANGED <<arg_vars, kernel_restart, scan_vars, resolve_vars,
                   plan_vars, ret, host_vars, classify_vars,
                   pure_vars>>

\* _deleted_files: one more process from psutil.process_iter()
ScanProc ==
    /\ pc = "scan"
    /\ Len(scanned) < MaxProcs
    /\ \E proc \in Processes(Len(scanned) + 1) :
          LET out == ScanProcess(proc, deleted_files.items)
              before == Len(deleted_files.items)
          IN  /\ deleted_files' = out
              /\ scanned' = Append(scanned,
                    [pid |-> proc.pid, name |-> proc.name,
                     outcome |-> proc.outcome,
                     found |-> IF IsList(out)
                               THEN SubSeq(out.items, before + 1,
                                           Len(out.items))
                               ELSE <<>>])
              /\ pc' = IF IsList(out) THEN "scan" ELSE "scanned"
    /\ UNCHANGED <<arg_vars, kernel_restart, ignorelist, blacklist,
                   excludepid, resolve_vars, plan_vars,
                   ret, host_vars, classify_vars,
                   pure_vars>>

\* _deleted_files: no process is left, return deleted_files
ScanEnd ==
    /\ pc = "scan"
    /\ pc' = "scanned"
    /\ UNCHANGED <<arg_vars, kernel_restart, ignorelist, blacklist,
                   excludepid, scan_vars, resolve_vars,
                   plan_vars, ret, host_vars, classify_vars,
                   pure_vars>>

\* if not isinstance(deleted_files, list): return the failure
CheckScan ==
    /\ pc = "scanned"
    /\ IF IsList(deleted_files)
       THEN pc' = "resolve" /\ ret' = ret
       ELSE pc' = "done" /\ ret' = Failure(ScanFailedComment)
    /\ UNCHANGED <<arg_vars, kernel_restart, ignorelist, blacklist,
                   excludepid, scan_vars, resolve_vars,
                   plan_vars, host_vars, classify_vars,
                   pure_vars>>

\* the body of "for deleted_file in deleted_files" for one record
ResolveFile ==
    /\ pc = "resolve"
    /\ next_file <= Len(deleted_files.items)
    /\ next_file' = next_file + 1
    /\ LET deleted_file == deleted_files.items[next_file]
           name == deleted_file[1]
           pid == deleted_file[2]
           path == deleted_file[3]
       IN  IF Skipped(deleted_file, blacklist, excludepid)
           THEN UNCHANGED <<excludepid, exe, owners_cache, packages,
                            pkg_order>>
           ELSE \/ \* os.readlink raises OSError: the process is gone
                   /\ pid \notin DOMAIN exe
                   /\ excludepid' = Append(excludepid, pid)
                   /\ UNCHANGED <<exe, owners_cache, packages, pkg_order>>
                \/ \E readlink \in (IF pid \in DOMAIN exe THEN {exe[pid]}
                                    ELSE ExePaths),
                      owner \in Owners :
                      LET packagename ==
                              PackageName(owners_cache, readlink, owner, name)
                          program == Program(pid, readlink, path)
                      IN  /\ exe' = IF pid \in DOMAIN exe THEN exe
                                    ELSE exe @@ (pid :> readlink)
                          /\ owners_cache' =
                                 Memoize(owners_cache, readlink, packagename)
                          /\ IF Reported(packagename, ignorelist)
                             THEN /\ packages' = AddProgram(packages,
                                        packagename, program, name)
                                  /\ pkg_order' = AddKey(pkg_order,
                                                         packagename)
                             ELSE UNCHANGED <<packages, pkg_order>>
                          /\ excludepid' = excludepid
    /\ UNCHANGED <<pc, arg_vars, kernel_restart, ignorelist, blacklist,
                   scan_vars, plan_vars, ret,
                   host_vars, classify_vars,
                   pure_vars>>

\* after the loop: return the fixed string, or go on to the package
\* queries. What the rest of the run reads for the first time is drawn
\* here: the caller's verbose and whether the systemd binary exists
ResolveDone ==
    /\ pc = "resolve"
    /\ next_file > Len(deleted_files.items)
    /\ verbose' \in BOOLEAN
    /\ IF ShortCircuit(pkg_order, kernel_restart)
       THEN /\ pc' = "done"
            /\ ret' = StrResult(NothingToRestart)
            /\ has_systemd' = has_systemd
       ELSE /\ pc' = "services"
            /\ ret' = ret
            /\ has_systemd' \in (IF os_family = "NILinuxRT" THEN {FALSE}
                                 ELSE BOOLEAN)
    /\ UNCHANGED <<os_family, arg_ignorelist, arg_blacklist, arg_excludepid,
                   kernel_restart, ignorelist, blacklist, excludepid,
                   scan_vars, resolve_vars, plan_vars, host_vars,
                   classify_vars, pure_vars>>

\* the first "for package in packages": for each package, the package
\* query and the loop over its lines
MapServices ==
    /\ pc = "services"
    /\ packages' =
           [package \in DOMAIN packages |->
               ListingLoop(packages[package],
                           PackageFiles(package, os_family), 1, os_family,
                           has_systemd)]
    /\ pc' = "fallback"
    /\ UNCHANGED <<arg_vars, kernel_restart, ignorelist, blacklist,
                   excludepid, scan_vars, next_file, exe, owners_cache,
                   pkg_order, plan_vars, ret, host_vars, classify_vars,
                   pure_vars>>

\* the second "for package in packages"; host gives, for a process name,
\* what service.available and os.path.exists('/etc/init.d/' + name) answer
FallbackServices ==
    /\ pc = "fallback"
    /\ \E host \in [ProcNames -> ServiceAnswers] :
          /\ packages' =
                 [package \in DOMAIN packages |->
                     Fallback(packages[package],
                              host[packages[package].process_name].available,
                              host[packages[package].process_name].initd_exists)]
          /\ service_answers' =
                 [name \in AskedNames(packages) |-> host[name]]
    /\ pc' = "plan"
    /\ UNCHANGED <<arg_vars, kernel_restart, ignorelist, blacklist,
                   excludepid, scan_vars, next_file, exe, owners_cache,
                   pkg_order, plan_vars, ret, classify_vars,
                   pure_vars>>

\* the last loop over packages, then _format_output and the return
BuildPlan ==
    /\ pc = "plan"
    /\ LET plan == PlanLoop(EmptyPlan, packages, pkg_order, 1)
       IN  /\ restartable' = plan.restartable
           /\ nonrestartable' = plan.nonrestartable
           /\ restartinitcommands' = plan.restartinitcommands
           /\ restartservicecommands' = plan.restartservicecommands
           /\ ret' = _format_output(kernel_restart, packages, pkg_order,
                                    verbose, plan)
    /\ plan_built' = TRUE
    /\ pc' = "done"
    /\ UNCHANGED <<arg_vars, kernel_restart, ignorelist, blacklist,
                   excludepid, scan_vars, resolve_vars,
                   host_vars, classify_vars,
                   pure_vars>>

Next ==
    \/ Call
    \/ CheckKernel
    \/ NormaliseArgs
    \/ ScanProc
    \/ ScanEnd
    \/ CheckScan
    \/ ResolveFile
    \/ ResolveDone
    \/ MapServices
    \/ FallbackServices
    \/ BuildPlan

Spec == Init /\ [][Next]_vars

----------------------------------------------------------------------------
(* _valid_deleted_file on its own: every path of ClassifyPaths is handed   *)
(* to it once.                                                             *)

ClassifyDirs ==
    { PrefixesBeforeIcon[i] : i \in 1..Len(PrefixesBeforeIcon) }
    \cup { PrefixesAfterIcon[i] : i \in 1..Len(PrefixesAfterIcon) }
    \cup { "/usr/lib/", "/usr/share/icons/hicolor/", "/var/lib/", "/opt/" }

ClassifyNames == { "", "libfoo.so.1", "icon-theme.cache" }

ClassifySuffixes == { "", " (deleted)", " (path inode=42)" }

ClassifyPaths ==
    { d \o n \o x : d \in ClassifyDirs, n \in ClassifyNames,
                    x \in ClassifySuffixes }

InitClassify ==
    /\ pc = "classify"
    /\ cpath \in ClassifyPaths
    /\ cvalid = FALSE
    /\ os_family = ""
    /\ has_systemd = FALSE
    /\ arg_ignorelist = NoneArg
    /\ arg_blacklist = NoneArg
    /\ arg_excludepid = NoneArg
    /\ verbose = TRUE
    /\ kernel_restart = TRUE
    /\ ignorelist = <<>>
    /\ blacklist = <<>>
    /\ excludepid = <<>>
    /\ scanned = <<>>
    /\ deleted_files = ListVal(<<>>)
    /\ next_file = 1
    /\ exe = <<>>
    /\ owners_cache = <<>>
    /\ packages = <<>>
    /\ pkg_order = <<>>
    /\ restartable = <<>>
    /\ nonrestartable = <<>>
    /\ restartinitcommands = <<>>
    /\ restartservicecommands = <<>>
    /\ plan_built = FALSE
    /\ service_answers = <<>>
    /\ NoKernelCheck
    /\ NoFileCheck
    /\ ret = NoResult

\* the call _valid_deleted_file(cpath)
Classify ==
    /\ pc = "classify"
    /\ cvalid' = _valid_deleted_file(cpath)
    /\ pc' = "classified"
    /\ UNCHANGED <<cpath, arg_vars, kernel_restart, ignorelist, blacklist,
                   excludepid, scan_vars, resolve_vars, plan_vars,
                   ret, host_vars, pure_vars>>

NextClassify == Classify

SpecClassify == InitClassify /\ [][NextClassify]_vars

----------------------------------------------------------------------------
(* The kernel check of restartcheck, on its own: lines 453-485 for every   *)
(* os_family, list of versions and answers of the NILinuxRT probes.        *)

\* the run variables that neither the kernel check nor _file_changed_nilrt
\* reads or writes
RestIdle ==
    /\ has_systemd = FALSE
    /\ arg_ignorelist = NoneArg
    /\ arg_blacklist = NoneArg
    /\ arg_excludepid = NoneArg
    /\ verbose = TRUE
    /\ ignorelist = <<>>
    /\ blacklist = <<>>
    /\ excludepid = <<>>
    /\ scanned = <<>>
    /\ deleted_files = ListVal(<<>>)
    /\ next_file = 1
    /\ exe = <<>>
    /\ owners_cache = <<>>
    /\ packages = <<>>
    /\ pkg_order = <<>>
    /\ restartable = <<>>
    /\ nonrestartable = <<>>
    /\ restartinitcommands = <<>>
    /\ restartservicecommands = <<>>
    /\ plan_built = FALSE
    /\ service_answers = <<>>
    /\ ret = NoResult
    /\ cpath = ""
    /\ cvalid = FALSE

\* the lists a _kernel_versions_* function may return
KernelCheckVersionSets ==
    KernelVersionSets
    \cup { <<"">>, <<"4.9.0-9-amd64", "4.9.0-9-generic #9", "4.9.0-8">> }

InitKernel ==
    /\ pc = "kernel_check"
    /\ os_family \in SupportedFamilies
    /\ versions_found \in KernelCheckVersionSets
    /\ nilrt_probes \in NilrtProbes
    /\ kernel_restart = TRUE
    /\ RestIdle
    /\ NoFileCheck

\* kernel_restart = True, then the loop over kernel_versions
KernelCheck ==
    /\ pc = "kernel_check"
    /\ kernel_restart' = KernelRestart(os_family, versions_found, 1,
                                       KernelCurrent, nilrt_probes)
    /\ pc' = "kernel_checked"
    /\ UNCHANGED <<arg_vars, ignorelist, blacklist, excludepid, scan_vars,
                   resolve_vars, plan_vars, ret, host_vars, classify_vars,
                   pure_vars>>

NextKernel == KernelCheck

SpecKernel == InitKernel /\ [][NextKernel]_vars

----------------------------------------------------------------------------
(* _file_changed_nilrt, on its own: for every state of the two snapshot    *)
(* files, of the file's modification time and of the md5sum check.         *)

Whitespace == {" ", "\t", "\n", "\r"}

\* s.rstrip()
RECURSIVE Rstrip(_)
Rstrip(s) ==
    IF Len(s) > 0 /\ CharAt(s, Len(s)) \in Whitespace
    THEN Rstrip(DropLast(s, 1))
    ELSE s

\* str(int(mtime)) for a modification time given in tenths of a second
CurTimestamp(tenths) == ToString(tenths \div 10)

\* _file_changed_nilrt that asks for both snapshot files to be missing
FileChangedIfBothGone(ts_exists, md5_exists, content, tenths, retcode) ==
    IF ~ts_exists /\ ~md5_exists THEN TRUE
    ELSE IF Rstrip(content) # CurTimestamp(tenths) THEN TRUE
    ELSE retcode # 0

_file_changed_nilrt(ts_exists, md5_exists, content, tenths, retcode) ==
    IF ~ts_exists \/ ~md5_exists THEN TRUE
    ELSE IF Rstrip(content) # CurTimestamp(tenths) THEN TRUE
    ELSE retcode # 0

\* what the timestamp snapshot file may hold
TimestampFiles == { "1700\n", "1700", "1701\n", "1699 \n", "" }

\* modification times, in tenths of a second
Mtimes == { 16999, 17000, 17009, 17010 }

\* exit statuses of md5sum -cs
Retcodes == { 0, 1 }

InitFileChanged ==
    /\ pc = "file_check"
    /\ timestamp_file_exists \in BOOLEAN
    /\ md5sum_file_exists \in BOOLEAN
    /\ timestamp_file \in TimestampFiles
    /\ mtime \in Mtimes
    /\ md5sum_retcode \in Retcodes
    /\ file_changed = FALSE
    /\ os_family = "NILinuxRT"
    /\ kernel_restart = TRUE
    /\ RestIdle
    /\ NoKernelCheck

\* the call _file_changed_nilrt(full_filepath)
FileChanged ==
    /\ pc = "file_check"
    /\ file_changed' = _file_changed_nilrt(timestamp_file_exists,
                                           md5sum_file_exists, timestamp_file,
                                           mtime, md5sum_retcode)
    /\ pc' = "file_checked"
    /\ UNCHANGED <<arg_vars, kernel_restart, ignorelist, blacklist,
                   excludepid, scan_vars, resolve_vars, plan_vars, ret,
                   host_vars, classify_vars, kernel_check_vars,
                   timestamp_file_exists, md5sum_file_exists, timestamp_file,
                   mtime, md5sum_retcode>>

NextFileChanged == FileChanged

SpecFileChanged == InitFileChanged /\ [][NextFileChanged]_vars

----------------------------------------------------------------------------
(* Properties.                                                             *)

\* how often x occurs in the list seq
Count(seq, x) == Cardinality({i \in DOMAIN seq : seq[i] = x})

\* the elements of the list seq
Elems(seq) == {seq[i] : i \in DOMAIN seq}

\* the blacklist and the excludepid the caller passed, as sets
CallerBlacklist ==
    CASE arg_blacklist.kind = "list" -> Elems(arg_blacklist.items)
      [] arg_blacklist.kind = "none" -> {}
      [] OTHER -> {arg_blacklist.val}

CallerExcludepid ==
    CASE arg_excludepid.kind = "list" -> Elems(arg_excludepid.items)
      [] arg_excludepid.kind = "none" -> {}
      [] OTHER -> {arg_excludepid.val}

\* the records of the scan the caller's blacklist or excludepid names
FilteredRecords ==
    IF IsList(deleted_files)
    THEN {r \in Elems(deleted_files.items) :
             r[2] \in CallerExcludepid \/ r[3] \in CallerBlacklist}
    ELSE {}

\* every process line of every package entry
ProcessLines ==
    UNION {Elems(packages[p].processes) : p \in DOMAIN packages}

\* C1: excludepid and blacklist are strict filters: no record of the scan
\* whose pid is in the caller's excludepid or whose path is in the caller's
\* blacklist has its process line in any package entry, every entry holds
\* the line of a record that passed the filters, and the plan names only
\* packages that have an entry.
C1_FiltersAreStrict ==
    /\ \A r \in FilteredRecords : \A e \in ExePaths :
           Program(r[2], e, r[3]) \notin ProcessLines
    /\ \A p \in DOMAIN packages :
           \E r \in Elems(deleted_files.items) \ FilteredRecords :
               \E e \in ExePaths :
                   InList(Program(r[2], e, r[3]), packages[p].processes)
    /\ Elems(restartable) \cup Elems(nonrestartable) \subseteq DOMAIN packages

\* a run that ended with a plan in which a record was filtered out and
\* another one was reported
C1_Witness ==
    /\ pc = "done"
    /\ plan_built
    /\ FilteredRecords # {}
    /\ DOMAIN packages # {}

\* the records the inspected processes contributed, in order, from entry k
RECURSIVE FoundFrom(_)
FoundFrom(k) ==
    IF k > Len(scanned) THEN <<>>
    ELSE (IF scanned[k].outcome = "ok" THEN scanned[k].found ELSE <<>>)
         \o FoundFrom(k + 1)

OutcomesSeen == {scanned[i].outcome : i \in DOMAIN scanned}

\* C2 as claimed: whenever the scan has returned, whatever process vanished
\* (psutil.NoSuchProcess, or maps or fd not opening), it returned a list
\* holding the records of the other processes.
C2_VanishedProcessIsSkipped ==
    pc = "scanned" =>
        /\ IsList(deleted_files)
        /\ deleted_files.items = FoundFrom(1)

\* C2 amended: a process that vanishes so that reading its pid and name
\* raises NoSuchProcess is skipped silently: when no maps file or fd
\* directory failed to open, the scan returns a list, the list holds the
\* records of the other processes and none of a vanished one.
C2_NoSuchProcessIsSkipped ==
    (pc = "scanned" /\ "OpenError" \notin OutcomesSeen) =>
        /\ IsList(deleted_files)
        /\ deleted_files.items = FoundFrom(1)
        /\ \A r \in Elems(deleted_files.items) :
               scanned[r[2]].outcome = "ok"
        /\ \A i \in DOMAIN scanned :
               scanned[i].outcome = "NoSuchProcess" => scanned[i].found = <<>>

\* a scan that returned records although a process had vanished
C2_Witness ==
    /\ pc = "scanned"
    /\ "NoSuchProcess" \in OutcomesSeen
    /\ "OpenError" \notin OutcomesSeen
    /\ IsList(deleted_files)
    /\ Len(deleted_files.items) > 0

\* C3: once the maps file or the fd directory of a process could not be
\* opened, _deleted_files returns False, which is no list (the empty list
\* included), and restartcheck returns the failure object: never the
\* "No packages ..." string, a list or a report.
C3_OpenErrorFailsTheRun ==
    "OpenError" \in OutcomesSeen =>
        /\ pc \in {"scanned", "done"}
        /\ deleted_files = FalseVal
        /\ ~IsList(deleted_files)
        /\ packages = <<>>
        /\ ~plan_built
        /\ pc = "done" => ret = Failure(ScanFailedComment)

\* a run ended by a maps file or fd directory that could not be opened
C3_Witness ==
    /\ pc = "done"
    /\ "OpenError" \in OutcomesSeen
    /\ "ok" \in OutcomesSeen
    /\ ret.kind = "failure"

\* the package names the run resolved records to
ResolvedNames == {owners_cache[x] : x \in DOMAIN owners_cache}

\* C4 as claimed: no reported package is in the caller's ignorelist, and
\* none is "screen" or "systemd", whatever the caller passed.
C4_DefaultsAlwaysIgnored ==
    \A p \in DOMAIN packages :
        /\ arg_ignorelist.kind = "str" => p # arg_ignorelist.val
        /\ arg_ignorelist.kind = "list" => p \notin Elems(arg_ignorelist.items)
        /\ p \notin {"screen", "systemd"}

\* C4 amended: no reported package is in the ignore list in effect, which
\* is the caller's ignorelist when one is passed and not empty, and
\* "screen" and "systemd" only otherwise.
C4_IgnorelistInEffect ==
    \A p \in DOMAIN packages :
        /\ (arg_ignorelist.kind = "str" /\ arg_ignorelist.val # "")
               => p # arg_ignorelist.val
        /\ (arg_ignorelist.kind = "list" /\ arg_ignorelist.items # <<>>)
               => p \notin Elems(arg_ignorelist.items)
        /\ (\/ arg_ignorelist.kind = "none"
            \/ (arg_ignorelist.kind = "str" /\ arg_ignorelist.val = "")
            \/ (arg_ignorelist.kind = "list" /\ arg_ignorelist.items = <<>>))
               => p \notin {"screen", "systemd"}

\* a run whose caller ignores nginx: a record resolved to nginx was dropped
\* and another package was reported
C4_Witness ==
    /\ pc = "done"
    /\ arg_ignorelist = StrArg("nginx")
    /\ "nginx" \in ResolvedNames
    /\ "nginx" \notin DOMAIN packages
    /\ DOMAIN packages # {}

\* C5: once the plan is built, every package with an entry is exactly once
\* in restartable and nonrestartable taken together, and they hold nothing
\* else.
C5_BucketPartition ==
    plan_built =>
        /\ \A p \in DOMAIN packages :
               Count(restartable, p) + Count(nonrestartable, p) = 1
        /\ Elems(restartable) \cup Elems(nonrestartable) = DOMAIN packages

\* a plan with a package in each bucket, one of them with both an init
\* script and a systemd unit
C5_Witness ==
    /\ plan_built
    /\ Len(restartable) > 0
    /\ Len(nonrestartable) > 0
    /\ \E p \in DOMAIN packages :
           /\ Len(packages[p].initscripts) > 0
           /\ Len(packages[p].systemdservice) > 0

Succeeded == pc = "done" /\ ret.kind # "failure"

\* restartable + nonrestartable, and the sentinel when the kernel is stale
ExpectedCompactList ==
    restartable \o nonrestartable
    \o (IF kernel_restart THEN <<"System restart required.">> ELSE <<>>)

\* C6 as claimed: every successful run with verbose false returns the list
\* restartable + nonrestartable, with the sentinel appended exactly when a
\* kernel restart is required.
C6_CompactListAlways ==
    (Succeeded /\ ~verbose) => ret = ListResult(ExpectedCompactList)

\* C6 amended: a successful run with verbose false that reports a package
\* or requires a kernel restart returns that list; with no package and no
\* kernel restart it returns the "No packages ..." string instead.
C6_CompactListUnlessShortCircuit ==
    (Succeeded /\ ~verbose) =>
        IF DOMAIN packages # {} \/ kernel_restart
        THEN ret = ListResult(ExpectedCompactList)
        ELSE ret = StrResult("No packages seem to need to be restarted.")

\* a compact result that is the sentinel alone: no package, stale kernel
C6_Witness ==
    /\ Succeeded
    /\ ~verbose
    /\ DOMAIN packages = {}
    /\ ret = ListResult(<<"System restart required.">>)

\* C7: a run whose scan succeeded and left no package returns exactly the
\* "No packages ..." string and builds no plan when no kernel restart is
\* required, and builds the plan and returns something else when one is.
C7_ShortCircuit ==
    (Succeeded /\ DOMAIN packages = {}) =>
        IF kernel_restart
        THEN plan_built /\ ret # StrResult("No packages seem to need to be restarted.")
        ELSE ~plan_built /\ ret = StrResult("No packages seem to need to be restarted.")

\* a run that found deleted files, filtered them all out and returned the
\* fixed string
C7_Witness ==
    /\ Succeeded
    /\ Len(deleted_files.items) > 0
    /\ DOMAIN packages = {}
    /\ ~kernel_restart
    /\ ret.kind = "str"

\* a directive line Type=oneshot, at whatever column it starts
OneshotDirective(line) == Contains(line, "Type=oneshot")

\* the unit files of this host that hold a Type=oneshot directive
IsOneshotUnit(pth) ==
    /\ UnitFile(pth).readable
    /\ \E i \in DOMAIN UnitFile(pth).lines :
           OneshotDirective(UnitFile(pth).lines[i])

\* C8: no unit file with a Type=oneshot line is recorded in the
\* systemdservice list of a package, and so none gets a restart command.
C8_OneshotNeverRecorded ==
    \A p \in DOMAIN packages :
        \A u \in Elems(packages[p].systemdservice) :
            ~IsOneshotUnit(SystemdFolder(os_family) \o u)

\* some exclusion test of _valid_deleted_file matches the path
MatchesExclusion(path) ==
    \/ \E d \in Elems(PrefixesBeforeIcon) \cup Elems(PrefixesAfterIcon) :
           StartsWith(path, d)
    \/ EndsWith(path, "icon-theme.cache")

\* C9: _valid_deleted_file returns true for every path that ends with
\* " (deleted)" and matches no exclusion test, and false for every path
\* under /tmp/, /var/log/, /run/ or /home/, marked or not.
C9_ClassifierContract ==
    pc = "classified" =>
        /\ (EndsWith(cpath, " (deleted)") /\ ~MatchesExclusion(cpath))
               => cvalid
        /\ (\E d \in {"/tmp/", "/var/log/", "/run/", "/home/"} :
               StartsWith(cpath, d)) => ~cvalid

\* a marked path outside every excluded directory, classified true
C9_Witness ==
    /\ pc = "classified"
    /\ cpath = "/usr/lib/libfoo.so.1 (deleted)"
    /\ cvalid

\* C10: a path that names an icon-theme.cache file and carries the trailing
\* " (deleted)" marker is classified false.
C10_IconCacheExcluded ==
    (/\ pc = "classified"
     /\ EndsWith(cpath, "icon-theme.cache (deleted)")) => ~cvalid

\* the primary strategy recorded an init script or a unit for the entry
PrimaryFound(entry) ==
    Len(entry.initscripts) > 0 \/ Len(entry.systemdservice) > 0

\* what the second loop may make of one entry, given the host's answers
FallbackOutcome(before, after, answers) ==
    LET name == before.process_name
    IN  IF PrimaryFound(before) THEN after = before
        ELSE /\ name \in DOMAIN answers
             /\ IF ~answers[name].available THEN after = before
                ELSE IF answers[name].initd_exists
                THEN /\ after.initscripts = <<name>>
                     /\ after.systemdservice = <<>>
                ELSE /\ after.systemdservice = <<name>>
                     /\ after.initscripts = <<>>
             /\ after.processes = before.processes
             /\ after.process_name = name

\* C11: the second loop leaves alone every package for which the package
\* query recorded an init script or a unit; for the others, when the
\* service named after the process exists, it records that name as an init
\* script if /etc/init.d/<name> exists and as a systemd service otherwise,
\* never as both.
C11_FallbackOnlyWhenNothingFound ==
    [][pc = "fallback" =>
          /\ DOMAIN packages' = DOMAIN packages
          /\ \A p \in DOMAIN packages :
                FallbackOutcome(packages[p], packages'[p],
                                service_answers')]_vars

\* the second loop has run over a package it left alone and over one that
\* the package query found nothing for, whose /etc/init.d script exists
C11_Witness ==
    /\ pc = "plan"
    /\ \E p, q \in DOMAIN packages :
          /\ packages[p].process_name \notin DOMAIN service_answers
          /\ PrimaryFound(packages[p])
          /\ packages[q].process_name \in DOMAIN service_answers
          /\ service_answers[packages[q].process_name].available
          /\ service_answers[packages[q].process_name].initd_exists
          /\ packages[q].initscripts = <<packages[q].process_name>>
          /\ packages[q].systemdservice = <<>>

\* how often the name is recorded in the lists lst[p] of the packages in P
RECURSIVE Recorded(_, _, _)
Recorded(P, lst, name) ==
    IF P = {} THEN 0
    ELSE LET p == CHOOSE q \in P : TRUE
         IN  Count(lst[p], name) + Recorded(P \ {p}, lst, name)

InitScriptsOf == [p \in DOMAIN packages |-> packages[p].initscripts]

UnitsOf == [p \in DOMAIN packages |-> packages[p].systemdservice]

\* the reported packages without an init script
WithoutInitScript ==
    {p \in DOMAIN packages : Len(packages[p].initscripts) = 0}

AllInitScripts == UNION {Elems(InitScriptsOf[p]) : p \in DOMAIN packages}

AllUnits == UNION {Elems(UnitsOf[p]) : p \in DOMAIN packages}

\* one 'service <name> restart' per init script recorded on any package
InitCommandPerScript ==
    /\ \A s \in AllInitScripts :
          Count(restartinitcommands, "service " \o s \o " restart")
              = Recorded(DOMAIN packages, InitScriptsOf, s)
    /\ \A c \in Elems(restartinitcommands) :
          \E s \in AllInitScripts : c = "service " \o s \o " restart"

\* C12, as stated: the plan holds one 'service <name> restart' for every
\* init script and one 'systemctl restart <name>' for every systemd unit
\* recorded on any reported package, also on a package that has both.
C12_CommandPerScriptAndUnit ==
    plan_built =>
        /\ InitCommandPerScript
        /\ \A u \in AllUnits :
              Count(restartservicecommands, "systemctl restart " \o u)
                  = Recorded(DOMAIN packages, UnitsOf, u)

\* C12, amended: the plan holds one 'service <name> restart' for every init
\* script recorded on any reported package, and one 'systemctl restart
\* <name>' for every systemd unit recorded on a reported package that has
\* no init script; the units of a package that has both get no command.
C12_InitScriptsTakePriority ==
    plan_built =>
        /\ InitCommandPerScript
        /\ \A u \in AllUnits :
              Count(restartservicecommands, "systemctl restart " \o u)
                  = Recorded(WithoutInitScript, UnitsOf, u)
        /\ \A c \in Elems(restartservicecommands) :
              \E u \in AllUnits : c = "systemctl restart " \o u

\* a plan over a package with both an init script and a unit, and a package
\* with a systemd service only
C12_Witness ==
    /\ plan_built
    /\ \E p, q \in DOMAIN packages :
          /\ Len(packages[p].initscripts) > 0
          /\ Len(packages[p].systemdservice) > 0
          /\ Len(packages[q].initscripts) = 0
          /\ Len(packages[q].systemdservice) > 0
    /\ Len(restartinitcommands) > 0
    /\ Len(restartservicecommands) > 0

\* some version of the list is a substring of the uname -a string
SomeVersionRuns ==
    \E i \in DOMAIN versions_found :
        Contains(KernelCurrent, versions_found[i])

\* C13: kernel_restart is false exactly when some version of the list is a
\* substring of the uname -a string and, on NILinuxRT, the kernel modules
\* and the system API are unchanged and no reboot-required flag was
\* witnessed; it is true otherwise, also for an empty list.
C13_KernelRestartDecision ==
    pc = "kernel_checked" =>
        (~kernel_restart <=>
            /\ SomeVersionRuns
            /\ os_family = "NILinuxRT" =>
                  /\ ~nilrt_probes.modules_changed
                  /\ ~nilrt_probes.sysapi_changed
                  /\ ~nilrt_probes.witnessed)

\* on NILinuxRT the installed kernel runs and nothing changed, but a
\* reboot-required flag was witnessed: a restart is required
C13_Witness ==
    /\ pc = "kernel_checked"
    /\ os_family = "NILinuxRT"
    /\ SomeVersionRuns
    /\ ~nilrt_probes.modules_changed
    /\ ~nilrt_probes.sysapi_changed
    /\ nilrt_probes.witnessed
    /\ kernel_restart

\* the snapshot a scanned process was taken from
SnapshotOf(name) == CHOOSE s \in ProcSnapshots : s.name = name

\* the records the maps probe and the fd probe find for a scanned process,
\* each probe taken alone
MapsRecords(rec) ==
    Elems(MapsProbe(rec.name, rec.pid, SnapshotOf(rec.name).maplines, 1,
                    <<>>))

FdRecords(rec) ==
    Elems(FdProbe(rec.name, rec.pid, SnapshotOf(rec.name).links, 1, <<>>))

\* C14: the list a successful _deleted_files scan returns holds no two
\* identical (name, pid, path) tuples, whatever the processes map and hold
\* open, also when both probes find the same path.
C14_NoDuplicateRecords ==
    IsList(deleted_files) =>
        \A i, j \in DOMAIN deleted_files.items :
            deleted_files.items[i] = deleted_files.items[j] => i = j

\* a finished scan over a process for which the maps probe and the fd
\* probe come to the same record, and whose maps file names a file twice
C14_Witness ==
    /\ pc = "scanned"
    /\ IsList(deleted_files)
    /\ \E i \in DOMAIN scanned :
          /\ scanned[i].outcome = "ok"
          /\ MapsRecords(scanned[i]) \cap FdRecords(scanned[i]) # {}
          /\ \E r \in MapsRecords(scanned[i]) \cap FdRecords(scanned[i]) :
                Count(deleted_files.items, r) = 1

\* the mapped path with only the trailing deleted marker removed
WithoutMarker(path) ==
    IF EndsWith(path, DeletedMarker) THEN DropLast(path, Len(DeletedMarker))
    ELSE path

\* the paths of the maps lines of a scanned process that the maps probe
\* makes records of
MappedPaths(rec) ==
    LET maplines == SnapshotOf(rec.name).maplines
    IN  { path \in { MapLinePath(maplines[k]) : k \in DOMAIN maplines } :
            path # "" /\ _valid_deleted_file(path) }

\* C15: for every record of the maps probe the stored path is the mapped
\* path with only the trailing ' (deleted)' marker removed, also for a line
\* accepted through the '(path inode=N)' suffix.
C15_StoredPathOnlyLosesMarker ==
    IsList(deleted_files) =>
        \A i \in DOMAIN scanned :
            scanned[i].outcome = "ok" =>
                \A path \in MappedPaths(scanned[i]) :
                    InList(<<scanned[i].name, scanned[i].pid,
                             WithoutMarker(path)>>, deleted_files.items)

\* pkg.owner returned nothing for the executable: what the cache holds for
\* it is a process name, not a package the package manager names
QueryReturnedNothing(readlink) ==
    /\ readlink \in DOMAIN owners_cache
    /\ owners_cache[readlink] \notin (Owners \ {""})

\* the record is reported under the package
ReportedUnder(record, package) ==
    /\ record[2] \in DOMAIN exe
    /\ package \in DOMAIN packages
    /\ InList(Program(record[2], exe[record[2]], record[3]),
              packages[package].processes)

\* C16: every reported record whose executable no package owns is
\* reported under its own process name, also when a process of another
\* name with the same executable was resolved before it.
C16_UnownedReportedUnderOwnName ==
    IsList(deleted_files) =>
        \A i \in DOMAIN deleted_files.items :
            \A package \in DOMAIN packages :
                LET record == deleted_files.items[i]
                IN  (/\ ReportedUnder(record, package)
                     /\ QueryReturnedNothing(exe[record[2]]))
                        => package = record[1]

\* the number of process lines listed over the packages in P
RECURSIVE ProcessEntries(_)
ProcessEntries(P) ==
    IF P = {} THEN 0
    ELSE LET p == CHOOSE q \in P : TRUE
         IN  Len(packages[p].processes) + ProcessEntries(P \ {p})

\* the 'Found N processes' line for the number n
FoundLine(n) ==
    "Found " \o ToString(n)
    \o " processes using old versions of upgraded files.\n"

\* C17: in a verbose report the number of the 'Found N processes using old
\* versions of upgraded files.' line is the number of process entries
\* listed over all reported packages.
C17_FoundCountsProcessEntries ==
    (/\ plan_built
     /\ verbose
     /\ Len(pkg_order) > 0)
        => /\ ret.kind = "str"
           /\ Contains(ret.text, FoundLine(ProcessEntries(DOMAIN packages)))

\* the number a string of decimal digits stands for, -1 for any other string
RECURSIVE Decimal(_)
Decimal(s) ==
    IF Len(s) = 0 THEN -1
    ELSE LET last == CharAt(s, Len(s))
             digit == CHOOSE d \in 0..9 : ToString(d) = last
         IN  IF last \notin {ToString(d) : d \in 0..9} THEN -1
             ELSE IF Len(s) = 1 THEN digit
             ELSE IF Decimal(DropLast(s, 1)) = -1 THEN -1
             ELSE Decimal(DropLast(s, 1)) * 10 + digit

\* the timestamp the snapshot file records, its trailing whitespace aside
RecordedSeconds == Decimal(Rstrip(timestamp_file))

====
